---- MODULE Spec2Model ----
(***************************************************************************)
(* Model of maxsubseq (src/src/main.rs): the three LCS-length variants     *)
(* lcs_for, lcs_rec and lcs_dynamic, and the main/benchmark glue that      *)
(* selects and runs one of them.                                           *)
(*                                                                         *)
(* A String is modelled as the sequence of its characters (code points).   *)
(* String::len() is the length in BYTES of the UTF-8 encoding, while       *)
(* chars().nth(k) indexes CHARACTERS and yields None past the last one;    *)
(* unwrap() on None panics.  Indices i, j are 0-based as in the source.    *)
(***************************************************************************)
EXTENDS Integers, Sequences, FiniteSets, TLC

VARIABLES s1, s2, algorithm, benchmark, mpc, out, calls, duration,
          forFrame, dynFrame, rpc, rec_result

vars == <<s1, s2, algorithm, benchmark, mpc, out, calls, duration,
          forFrame, dynFrame, rpc, rec_result>>

(*************************** bounds and inputs *****************************)
\* longest first string (in characters) drawn for the core algorithms
MaxLenX == 3
\* longest second string (in characters) drawn for the core algorithms
MaxLenY == 4
\* longest strings (in characters) drawn for the stepwise table fill
MaxLenDynX == 3
MaxLenDynY == 3
\* longest string (in characters) drawn for runs of main
MaxLenMain == 2

\* code points: 'A', 'B' (one byte each) and U+00E9 (two bytes in UTF-8)
Alphabet == {65, 66, 233}

RECURSIVE StrsOfLen(_)
StrsOfLen(n) ==
    IF n = 0 THEN {<< >>}
    ELSE {Append(s, c) : s \in StrsOfLen(n - 1), c \in Alphabet}

RECURSIVE StrsUpTo(_)
StrsUpTo(n) == IF n = 0 THEN StrsOfLen(0) ELSE StrsUpTo(n - 1) \cup StrsOfLen(n)

\* the concrete scenarios of the documentation
StrAA == <<65, 65>>
StrABC == <<65, 66, 67>>
StrABCBDAB == <<65, 66, 67, 66, 68, 65, 66>>
StrBDCABA == <<66, 68, 67, 65, 66, 65>>
Scenarios == {<<StrABC, StrABC>>, <<StrABCBDAB, StrBDCABA>>}

CoreInputs == (StrsUpTo(MaxLenX) \X StrsUpTo(MaxLenY)) \cup Scenarios
DynInputs == (StrsUpTo(MaxLenDynX) \X StrsUpTo(MaxLenDynY)) \cup Scenarios
MainInputs == StrsUpTo(MaxLenMain) \X StrsUpTo(MaxLenMain)

(***************************** String model ********************************)
\* char::len_utf8: bytes one code point occupies
Utf8Len(c) == IF c < 128 THEN 1 ELSE IF c < 2048 THEN 2 ELSE IF c < 65536 THEN 3 ELSE 4

\* String::len(): length in bytes
RECURSIVE ByteLen(_)
ByteLen(s) == IF s = << >> THEN 0 ELSE Utf8Len(Head(s)) + ByteLen(Tail(s))

\* chars().nth(k) is Some exactly for 0 <= k < number of characters
\* (a negative i32 cast `as usize` is far past the end)
NthIsSome(s, k) == k >= 0 /\ k < Len(s)

\* chars().nth(k).unwrap(), defined where NthIsSome
Nth(s, k) == s[k + 1]

Max(a, b) == IF a >= b THEN a ELSE b

\* outcome of a call: a returned i32, or a panic
Returned(v) == [ok |-> TRUE, val |-> v]
Panicked == [ok |-> FALSE, val |-> 0]

(******************************* lcs_for ***********************************)
\* a contains that looks at the most recently pushed element only
ContainsLast(v, c) == Len(v) > 0 /\ v[Len(v)] = c

\* Vec::contains
Contains(v, c) == \E k \in 1..Len(v) : v[k] = c

\* the state of one call of lcs_for at entry; hits counts the increments of
\* lcs made so far during the inner scan of the current outer index i
ForEntry ==
    [pc |-> "outer", i |-> 0, j |-> 0, lcs |-> 0,
     already_counted_chars |-> << >>, max_char_pos |-> 0, hits |-> 0]

ForIdle == [ForEntry EXCEPT !.pc = "idle"]

\* line 91: the outer symbol was already counted
OuterSkip(counted, x_char) == Contains(counted, x_char)

\* the inner scan without its already-counted test
InnerSkipNever(counted, y_char) == FALSE

\* line 98: the inner symbol was already counted
InnerSkip(counted, y_char) == Contains(counted, y_char)

\* the match test without the cursor comparison
QualifiesAnywhere(x_char, y_char, j, max_char_pos) == x_char = y_char

\* line 102
Qualifies(x_char, y_char, j, max_char_pos) == x_char = y_char /\ j > max_char_pos

\* lines 88-93: head and first half of the body of `for i in 0..x.len()`
ForOuterStep(x, y, st) ==
    IF st.i >= ByteLen(x) THEN [st EXCEPT !.pc = "done"]
    ELSE IF ~NthIsSome(x, st.i) THEN [st EXCEPT !.pc = "panic"]
    ELSE IF OuterSkip(st.already_counted_chars, Nth(x, st.i))
         THEN [st EXCEPT !.i = st.i + 1]
         ELSE [st EXCEPT !.pc = "inner", !.j = 0]

\* lines 95-108: head and body of `for j in 0..y.len()`
ForInnerStep(x, y, st) ==
    IF st.j >= ByteLen(y)
    THEN [st EXCEPT !.pc = "outer", !.i = st.i + 1, !.j = 0, !.hits = 0]
    ELSE IF ~NthIsSome(y, st.j) THEN [st EXCEPT !.pc = "panic"]
    ELSE IF InnerSkip(st.already_counted_chars, Nth(y, st.j))
         THEN [st EXCEPT !.j = st.j + 1]
    ELSE IF Qualifies(Nth(x, st.i), Nth(y, st.j), st.j, st.max_char_pos)
         THEN [st EXCEPT !.already_counted_chars = Append(@, Nth(x, st.i)),
                         !.max_char_pos = st.j,
                         !.lcs = st.lcs + 1,
                         !.hits = st.hits + 1,
                         !.j = st.j + 1]
         ELSE [st EXCEPT !.j = st.j + 1]

ForStep(x, y, st) ==
    IF st.pc = "outer" THEN ForOuterStep(x, y, st) ELSE ForInnerStep(x, y, st)

\* a whole call of lcs_for, run to its return or panic
RECURSIVE ForRun(_, _, _)
ForRun(x, y, st) ==
    IF st.pc \in {"done", "panic"} THEN st ELSE ForRun(x, y, ForStep(x, y, st))

lcs_for(x, y) ==
    LET fin == ForRun(x, y, ForEntry)
    IN  IF fin.pc = "done" THEN Returned(fin.lcs) ELSE Panicked

(******************************* lcs_rec ***********************************)
\* a recursion that, on a mismatch, follows only the branch dropping x's symbol
RECURSIVE lcs_rec_one_branch(_, _, _, _)
lcs_rec_one_branch(x, y, i, j) ==
    IF i = -1 \/ j = -1 THEN Returned(0)
    ELSE IF ~NthIsSome(x, i) \/ ~NthIsSome(y, j) THEN Panicked
    ELSE IF Nth(x, i) = Nth(y, j)
         THEN LET r == lcs_rec_one_branch(x, y, i - 1, j - 1)
              IN  IF r.ok THEN Returned(1 + r.val) ELSE Panicked
         ELSE lcs_rec_one_branch(x, y, i - 1, j)

\* lines 117-127; a panic of a nested call unwinds through the callers
RECURSIVE lcs_rec(_, _, _, _)
lcs_rec(x, y, i, j) ==
    IF i = -1 \/ j = -1 THEN Returned(0)
    ELSE IF ~NthIsSome(x, i) \/ ~NthIsSome(y, j) THEN Panicked
    ELSE IF Nth(x, i) = Nth(y, j)
         THEN LET r == lcs_rec(x, y, i - 1, j - 1)
              IN  IF r.ok THEN Returned(1 + r.val) ELSE Panicked
         ELSE LET a == lcs_rec(x, y, i - 1, j)
                  b == lcs_rec(x, y, i, j - 1)
              IN  IF a.ok /\ b.ok THEN Returned(Max(a.val, b.val)) ELSE Panicked

\* lines 56-61: the call main makes
lcs_rec_from_main(x, y) == lcs_rec(x, y, ByteLen(x) - 1, ByteLen(y) - 1)

(***************************** lcs_dynamic *********************************)
\* line 133: vec![vec![0; y.len() + 1]; x.len() + 1]
ZeroTable(x, y) == [a \in 0..ByteLen(x) |-> [b \in 0..ByteLen(y) |-> 0]]

\* the state of one call of lcs_dynamic at entry; writes counts, per cell,
\* the assignments dp[i][j] = ... executed so far
DynEntry(x, y) ==
    [pc |-> "outer", i |-> 1, j |-> 1, dp |-> ZeroTable(x, y), writes |-> ZeroTable(x, y)]

DynIdle == [pc |-> "idle", i |-> 1, j |-> 1, dp |-> << >>, writes |-> << >>]

\* a recurrence whose mismatch branch forgets the left neighbour
DynCellUpOnly(x, y, dp, i, j) ==
    IF Nth(x, i - 1) = Nth(y, j - 1)
    THEN 1 + dp[i - 1][j - 1]
    ELSE dp[i - 1][j]

\* lines 137-141: the value assigned to dp[i][j]
DynCell(x, y, dp, i, j) ==
    IF Nth(x, i - 1) = Nth(y, j - 1)
    THEN 1 + dp[i - 1][j - 1]
    ELSE Max(dp[i - 1][j], dp[i][j - 1])

\* line 135: head of `for i in 1..=x.len()`; line 145 when it is exhausted
DynOuterStep(x, y, st) ==
    IF st.i > ByteLen(x) THEN [st EXCEPT !.pc = "done"]
    ELSE [st EXCEPT !.pc = "inner", !.j = 1]

\* lines 136-142: head and body of `for j in 1..=y.len()`
DynInnerStep(x, y, st) ==
    IF st.j > ByteLen(y) THEN [st EXCEPT !.pc = "outer", !.i = st.i + 1, !.j = 1]
    ELSE IF ~NthIsSome(x, st.i - 1) \/ ~NthIsSome(y, st.j - 1)
         THEN [st EXCEPT !.pc = "panic"]
         ELSE [st EXCEPT !.dp[st.i][st.j] = DynCell(x, y, st.dp, st.i, st.j),
                         !.writes[st.i][st.j] = @ + 1,
                         !.j = st.j + 1]

DynStep(x, y, st) ==
    IF st.pc = "outer" THEN DynOuterStep(x, y, st) ELSE DynInnerStep(x, y, st)

RECURSIVE DynRun(_, _, _)
DynRun(x, y, st) ==
    IF st.pc \in {"done", "panic"} THEN st ELSE DynRun(x, y, DynStep(x, y, st))

\* line 145: return dp[x.len()][y.len()]
DynResult(x, y, st) == st.dp[ByteLen(x)][ByteLen(y)]

lcs_dynamic(x, y) ==
    LET fin == DynRun(x, y, DynEntry(x, y))
    IN  IF fin.pc = "done" THEN Returned(DynResult(x, y, fin)) ELSE Panicked

(******************************** main *************************************)
Recognized == {"lcs_for", "lcs_dynamic", "lcs_rec"}
\* "lcs_fast" stands for every string the match of lines 53-63 does not name
Selectors == Recognized \cup {"lcs_fast"}

Line(tag, val) == [tag |-> tag, val |-> val]

\* lines 54-61: the arm of the match that the selector picks
Dispatch(alg, x, y) ==
    IF alg = "lcs_for" THEN lcs_for(x, y)
    ELSE IF alg = "lcs_dynamic" THEN lcs_dynamic(x, y)
    ELSE lcs_rec_from_main(x, y)

MainIdle ==
    /\ algorithm = "lcs_for" /\ benchmark = TRUE
    /\ mpc = "idle" /\ out = << >> /\ calls = 0 /\ duration = "None"

MainUnchanged == UNCHANGED <<forFrame, dynFrame, rpc, rec_result>>

InitMain ==
    /\ \E p \in MainInputs : s1 = p[1] /\ s2 = p[2]
    /\ algorithm \in Selectors
    /\ benchmark \in BOOLEAN
    /\ mpc = "start" /\ out = << >> /\ calls = 0 /\ duration = "None"
    /\ forFrame = ForIdle /\ dynFrame = DynIdle
    /\ rpc = "idle" /\ rec_result = Panicked

\* line 48
PrintS1 ==
    /\ mpc = "start"
    /\ out' = Append(out, Line("s1", s1))
    /\ mpc' = "echoed_s1"
    /\ UNCHANGED <<s1, s2, algorithm, benchmark, calls, duration>>
    /\ MainUnchanged

\* line 49
PrintS2 ==
    /\ mpc = "echoed_s1"
    /\ out' = Append(out, Line("s2", s2))
    /\ mpc' = "benchmark"
    /\ UNCHANGED <<s1, s2, algorithm, benchmark, calls, duration>>
    /\ MainUnchanged

\* lines 36-38: the flag is set, the closure is called
BenchmarkTimed ==
    /\ mpc = "benchmark" /\ benchmark
    /\ mpc' = "closure"
    /\ UNCHANGED <<s1, s2, algorithm, benchmark, out, calls, duration>>
    /\ MainUnchanged

\* lines 40-42: the flag is clear, the closure is dropped uncalled
BenchmarkSkipped ==
    /\ mpc = "benchmark" /\ ~benchmark
    /\ duration' = "None"
    /\ mpc' = "after"
    /\ UNCHANGED <<s1, s2, algorithm, benchmark, out, calls>>
    /\ MainUnchanged

\* lines 53-61: a recognized selector; the algorithm returns
CoreReturns ==
    /\ mpc = "closure" /\ algorithm \in Recognized
    /\ Dispatch(algorithm, s1, s2).ok
    /\ calls' = calls + 1
    /\ out' = Append(out, Line("lcs", <<Dispatch(algorithm, s1, s2).val>>))
    /\ duration' = "Some"
    /\ mpc' = "after"
    /\ UNCHANGED <<s1, s2, algorithm, benchmark>>
    /\ MainUnchanged

\* lines 53-61: a recognized selector; the algorithm panics
CorePanics ==
    /\ mpc = "closure" /\ algorithm \in Recognized
    /\ ~Dispatch(algorithm, s1, s2).ok
    /\ calls' = calls + 1
    /\ mpc' = "aborted"
    /\ UNCHANGED <<s1, s2, algorithm, benchmark, out, duration>>
    /\ MainUnchanged

\* line 62: panic!("Invalid algorithm")
InvalidAlgorithm ==
    /\ mpc = "closure" /\ algorithm \notin Recognized
    /\ mpc' = "aborted"
    /\ UNCHANGED <<s1, s2, algorithm, benchmark, out, calls, duration>>
    /\ MainUnchanged

\* lines 70-72: Some(duration)
PrintTime ==
    /\ mpc = "after" /\ duration = "Some"
    /\ out' = Append(out, Line("time", << >>))
    /\ mpc' = "exit"
    /\ UNCHANGED <<s1, s2, algorithm, benchmark, calls, duration>>
    /\ MainUnchanged

\* lines 70-73: None
ExitUntimed ==
    /\ mpc = "after" /\ duration = "None"
    /\ mpc' = "exit"
    /\ UNCHANGED <<s1, s2, algorithm, benchmark, out, calls, duration>>
    /\ MainUnchanged

NextMain ==
    \/ PrintS1
    \/ PrintS2
    \/ BenchmarkTimed
    \/ BenchmarkSkipped
    \/ CoreReturns
    \/ CorePanics
    \/ InvalidAlgorithm
    \/ PrintTime
    \/ ExitUntimed

SpecMain == InitMain /\ [][NextMain]_vars

(************************ the algorithms, stepwise *************************)
InitFor ==
    /\ \E p \in CoreInputs : s1 = p[1] /\ s2 = p[2]
    /\ MainIdle
    /\ forFrame = ForEntry /\ dynFrame = DynIdle
    /\ rpc = "idle" /\ rec_result = Panicked

ForOuter ==
    /\ forFrame.pc = "outer"
    /\ forFrame' = ForOuterStep(s1, s2, forFrame)
    /\ UNCHANGED <<s1, s2, algorithm, benchmark, mpc, out, calls, duration,
                   dynFrame, rpc, rec_result>>

ForInner ==
    /\ forFrame.pc = "inner"
    /\ forFrame' = ForInnerStep(s1, s2, forFrame)
    /\ UNCHANGED <<s1, s2, algorithm, benchmark, mpc, out, calls, duration,
                   dynFrame, rpc, rec_result>>

NextFor == ForOuter \/ ForInner

SpecFor == InitFor /\ [][NextFor]_vars

InitDyn ==
    /\ \E p \in DynInputs : s1 = p[1] /\ s2 = p[2]
    /\ MainIdle
    /\ forFrame = ForIdle /\ dynFrame = DynEntry(s1, s2)
    /\ rpc = "idle" /\ rec_result = Panicked

DynOuter ==
    /\ dynFrame.pc = "outer"
    /\ dynFrame' = DynOuterStep(s1, s2, dynFrame)
    /\ UNCHANGED <<s1, s2, algorithm, benchmark, mpc, out, calls, duration,
                   forFrame, rpc, rec_result>>

DynInner ==
    /\ dynFrame.pc = "inner"
    /\ dynFrame' = DynInnerStep(s1, s2, dynFrame)
    /\ UNCHANGED <<s1, s2, algorithm, benchmark, mpc, out, calls, duration,
                   forFrame, rpc, rec_result>>

NextDyn == DynOuter \/ DynInner

SpecDyn == InitDyn /\ [][NextDyn]_vars

InitRec ==
    /\ \E p \in CoreInputs : s1 = p[1] /\ s2 = p[2]
    /\ MainIdle
    /\ forFrame = ForIdle /\ dynFrame = DynIdle
    /\ rpc = "call" /\ rec_result = Panicked

\* lines 56-61, 117-127: the whole recursion, to its return or panic
RecCall ==
    /\ rpc = "call"
    /\ rec_result' = lcs_rec_from_main(s1, s2)
    /\ rpc' = IF lcs_rec_from_main(s1, s2).ok THEN "done" ELSE "panic"
    /\ UNCHANGED <<s1, s2, algorithm, benchmark, mpc, out, calls, duration,
                   forFrame, dynFrame>>

NextRec == RecCall

SpecRec == InitRec /\ [][NextRec]_vars

(******************* the standard definition of the LCS ********************)
\* the elements of a finite set of indices, in increasing order
RECURSIVE Ascending(_)
Ascending(S) ==
    IF S = {} THEN << >>
    ELSE LET lo == CHOOSE a \in S : \A b \in S : a <= b
         IN  <<lo>> \o Ascending(S \ {lo})

\* the symbols of a at the indices i1 < ... < ik that make up S
Pick(a, S) == LET idx == Ascending(S) IN [t \in 1..Len(idx) |-> a[idx[t]]]

\* every subsequence of a: one per choice of indices i1 < ... < ik
Subseqs(a) == {Pick(a, S) : S \in SUBSET (1..Len(a))}

\* every k for which indices i1 < ... < ik of a and j1 < ... < jk of b exist
\* with a[it] = b[jt] for every t
CommonLengths(a, b) == {Len(u) : u \in Subseqs(a) \cap Subseqs(b)}

TrueLCS(a, b) == CHOOSE k \in CommonLengths(a, b) : \A h \in CommonLengths(a, b) : h <= k

Prefix(s, n) == SubSeq(s, 1, n)

\* u is a subsequence of v
RECURSIVE IsSubseq(_, _)
IsSubseq(u, v) ==
    IF u = << >> THEN TRUE
    ELSE IF v = << >> THEN FALSE
    ELSE IF Head(u) = Head(v) THEN IsSubseq(Tail(u), Tail(v))
    ELSE IsSubseq(u, Tail(v))

(******************************* properties ********************************)

\* C1: for every pair of sequences, lcs_dynamic returns (it never panics)
\* and the value it returns is the length of the longest common subsequence
\* under the standard definition.
C1_DynamicReturnsTrueLCS ==
    /\ dynFrame.pc # "panic"
    /\ dynFrame.pc = "done" => DynResult(s1, s2, dynFrame) = TrueLCS(s1, s2)

\* C2: lcs_rec started at the last indices and lcs_dynamic have the same
\* outcome on every input: the same returned value, or a panic in both.
C2_RecEqualsDynamic ==
    rpc \in {"done", "panic"} => rec_result = lcs_dynamic(s1, s2)

C2_Witness ==
    /\ rpc = "done" /\ rec_result.ok /\ rec_result.val >= 2
    /\ s1 # s2 /\ rec_result.val < Len(s1) /\ rec_result.val < Len(s2)

\* C3: the core is total: none of the three variants ever panics, and each
\* returns a non-negative integer, whatever code points the inputs hold.
C3_CoreIsTotal ==
    /\ forFrame.pc # "panic"
    /\ forFrame.lcs >= 0
    /\ forFrame.pc = "done" =>
           /\ lcs_dynamic(s1, s2).ok /\ lcs_dynamic(s1, s2).val >= 0
           /\ lcs_rec_from_main(s1, s2).ok /\ lcs_rec_from_main(s1, s2).val >= 0

\* C4: a run of main with a recognized selector that reaches its end has
\* printed s1, then s2, then the LCS length, then the duration exactly when
\* the timing flag is set, and has invoked the selected algorithm once.
C4_OutputAndSingleCall ==
    (mpc = "exit" /\ algorithm \in Recognized) =>
        /\ calls = 1
        /\ Len(out) = (IF benchmark THEN 4 ELSE 3)
        /\ out[1] = Line("s1", s1)
        /\ out[2] = Line("s2", s2)
        /\ out[3] = Line("lcs", <<Dispatch(algorithm, s1, s2).val>>)
        /\ benchmark => out[4] = Line("time", << >>)

\* C5: a run of main with an unrecognized selector ends aborted, whatever
\* the timing flag, with no algorithm invoked and no LCS length printed.
C5_InvalidSelectorAborts ==
    (mpc \in {"exit", "aborted"} /\ algorithm \notin Recognized) =>
        /\ mpc = "aborted"
        /\ calls = 0
        /\ \A k \in 1..Len(out) : out[k].tag # "lcs"

\* C6: on "ABC" and "ABC" lcs_for returns 3, as lcs_dynamic and lcs_rec do.
C6_ABCGivesThree ==
    (forFrame.pc = "done" /\ s1 = StrABC /\ s2 = StrABC) =>
        /\ forFrame.lcs = 3
        /\ lcs_dynamic(s1, s2) = Returned(3)
        /\ lcs_rec_from_main(s1, s2) = Returned(3)

\* C7: in lcs_for the count is incremented at outer index i only if no
\* earlier index of A holds the same symbol as A[i]; and on "AA", "AA"
\* lcs_for returns 1 while lcs_dynamic returns 2.
C7_FirstOccurrenceOnly ==
    /\ [][forFrame'.lcs # forFrame.lcs =>
             \A k \in 0..(forFrame.i - 1) : Nth(s1, k) # Nth(s1, forFrame.i)]_vars
    /\ []((forFrame.pc = "done" /\ s1 = StrAA /\ s2 = StrAA) =>
             (forFrame.lcs = 1 /\ lcs_dynamic(s1, s2) = Returned(2)))

\* a later occurrence in A of a counted symbol is skipped although B still
\* holds that symbol past the cursor
C7_Witness ==
    /\ forFrame.pc = "outer" /\ NthIsSome(s1, forFrame.i)
    /\ OuterSkip(forFrame.already_counted_chars, Nth(s1, forFrame.i))
    /\ \E k \in 0..(forFrame.i - 1) : Nth(s1, k) = Nth(s1, forFrame.i)
    /\ \E k \in (forFrame.max_char_pos + 1)..(Len(s2) - 1) : Nth(s2, k) = Nth(s1, forFrame.i)

\* C8 as stated: one symbol of A is counted at two or more positions of B
\* when it recurs in B past the cursor.  Its plainest case: the inner scan
\* for the first symbol of A ends with two or more increments whenever that
\* symbol stands at two or more positions of B past the initial cursor.
C8_RecurringSymbolCountedTwice ==
    ( /\ forFrame.pc = "inner" /\ forFrame.i = 0 /\ forFrame.j = ByteLen(s2)
      /\ Cardinality({k \in 1..(Len(s2) - 1) : Nth(s2, k) = Nth(s1, 0)}) >= 2 )
    => forFrame.hits >= 2

\* C8 amended: during the inner scan for one outer index the count is
\* incremented at no more than one position of B.
C8_AtMostOncePerOuterIndex == forFrame.hits <= 1

\* the symbol was counted once in this scan and stands again in B past the cursor
C8_Witness ==
    /\ forFrame.pc = "inner" /\ forFrame.hits = 1
    /\ NthIsSome(s2, forFrame.j)
    /\ Nth(s2, forFrame.j) = Nth(s1, forFrame.i)
    /\ forFrame.j > forFrame.max_char_pos

\* C9: during the fill every written cell dp[a][b] holds the LCS length of
\* the prefixes of a and b symbols; row 0 and column 0 hold 0 and are never
\* written; no cell is written twice.
C9_TableInvariant ==
    dynFrame.pc # "idle" =>
        \A a \in 0..ByteLen(s1), b \in 0..ByteLen(s2) :
            /\ dynFrame.writes[a][b] <= 1
            /\ (a = 0 \/ b = 0) => (dynFrame.dp[a][b] = 0 /\ dynFrame.writes[a][b] = 0)
            /\ dynFrame.writes[a][b] >= 1 =>
                   dynFrame.dp[a][b] = TrueLCS(Prefix(s1, a), Prefix(s2, b))

C9_Witness ==
    /\ dynFrame.pc = "done" /\ Len(s1) >= 2 /\ Len(s2) >= 2
    /\ \A a \in 1..ByteLen(s1), b \in 1..ByteLen(s2) : dynFrame.writes[a][b] = 1
    /\ DynResult(s1, s2, dynFrame) >= 1
    /\ DynResult(s1, s2, dynFrame) < Len(s1)
    /\ DynResult(s1, s2, dynFrame) < Len(s2)

\* C10: the symbols lcs_for has counted form a common subsequence of A and
\* B whose length is the count; each increment is by one, is the first of
\* its outer index, and is at an index of B past the cursor and past 0; and
\* the value lcs_for returns never exceeds the one lcs_dynamic returns.
C10_ForAtMostDynamic ==
    /\ []( /\ Len(forFrame.already_counted_chars) = forFrame.lcs
           /\ IsSubseq(forFrame.already_counted_chars, s1)
           /\ IsSubseq(forFrame.already_counted_chars, s2)
           /\ forFrame.pc = "done" =>
                  (lcs_dynamic(s1, s2).ok /\ forFrame.lcs <= lcs_dynamic(s1, s2).val) )
    /\ [][forFrame'.lcs # forFrame.lcs =>
             /\ forFrame'.lcs = forFrame.lcs + 1
             /\ forFrame.hits = 0
             /\ forFrame.j > forFrame.max_char_pos
             /\ forFrame.j >= 1
             /\ forFrame'.max_char_pos = forFrame.j]_vars

\* lcs_for returns, and returns strictly less than lcs_dynamic
C10_Witness ==
    /\ forFrame.pc = "done" /\ forFrame.lcs >= 1
    /\ lcs_dynamic(s1, s2).ok /\ forFrame.lcs < lcs_dynamic(s1, s2).val

====
